---- MODULE Spec2Model ----
(***************************************************************************)
(* Model of src/src/owned_ptr.h: owned_ptr (the owner handle), dep_ptr and *)
(* dep_ptr_const (the dependent handles) and the heap block they share.    *)
(*                                                                         *)
(* A block is one aligned_alloc() allocation: Control{ref_count, deleter}  *)
(* followed by the value.  ref_count is one machine word whose top bit is  *)
(* owner_marker.  Handle objects live in numbered slots; a slot that is    *)
(* not live holds no object (not yet constructed, or already destroyed).   *)
(*                                                                         *)
(* check_condition is modelled as a checking policy that stops the         *)
(* operation at the first failed condition (assert in owned_ptr.h:13-16,   *)
(* throw in test/error_handling_tests.cpp:21-26).                          *)
(***************************************************************************)
EXTENDS Integers, FiniteSets, Sequences, TLC

\* ---------------------------------------------------------------- bounds
NBlocks == 2
NOwners == 2
NDeps == 3
WordBits == 4
MaxCount == 3

Blocks == 1..NBlocks
OwnerIds == 1..NOwners
DepIds == 1..NDeps
Null == 0
Values == {"Foo", "Bar"}
Kinds == {"dep_ptr", "dep_ptr_const"}

VARIABLES
    reset_when_moved_from,  \* ErrorHandler::reset_when_moved_from of the instantiation
    odd_kind,               \* the class of the dependents declared in odd slots
    count_cap,              \* the dependent count at which the model stops counting up
    owners,                 \* owner slot -> [live, storage]
    deps,                   \* dependent slot -> [live, storage]
    fields,                 \* dependent slot -> the block whose value holds the
                            \* dependent as a data member (Null: a variable)
    heap,                   \* block -> [state, ref_count, value, dtor_runs, frees]
    last,                   \* the operation just performed and what it reported
    fault,                  \* undefined behaviour met so far ("none" if none)
    halted                  \* the process has crashed

vars == <<reset_when_moved_from, odd_kind, count_cap, owners, deps, fields, heap, last,
          fault, halted>>

\* The static type of the variable in dependent slot d: the odd slots are
\* declared with one of dep_ptr<T, ErrorHandler> and dep_ptr_const<T,
\* ErrorHandler>, the even slots with the other.
KindOf(d) ==
    IF d % 2 = 1 THEN odd_kind
    ELSE IF odd_kind = "dep_ptr" THEN "dep_ptr_const" ELSE "dep_ptr"

\* ------------------------------------------------------- the count word
WordModulus == 2 ^ WordBits

\* owner_marker: the most significant bit of the reference count
owner_marker == 2 ^ (WordBits - 1)

\* w & ~owner_marker
ClearMarker(w) == IF w >= owner_marker THEN w - owner_marker ELSE w

\* Control::has_owner
has_owner_nonzero(w) == w > 0
has_owner(w) == w >= owner_marker

\* ref_count++ and ref_count-- on size_t
Increment(w) == (w + 1) % WordModulus
Decrement(w) == (w + WordModulus - 1) % WordModulus

\* owned_ptr::num_deps, on the count word
num_deps_off_by_marker(w) == w
num_deps(w) == ClearMarker(w)

\* ------------------------------------------------------------ the heap
NoBlock == [state |-> "unallocated", ref_count |-> 0, value |-> "none",
            dtor_runs |-> 0, frees |-> 0]

\* new(_storage) Control{owner_marker, &deleter}; new(...) T{...}
NewBlock_unmarked(v) ==
    [state |-> "allocated", ref_count |-> 0, value |-> v, dtor_runs |-> 0, frees |-> 0]
NewBlock(v) == [state |-> "allocated", ref_count |-> owner_marker, value |-> v,
                dtor_runs |-> 0, frees |-> 0]

\* allocate(): the block aligned_alloc returns (blocks are never reused)
Unallocated == {b \in Blocks : heap[b].state = "unallocated"}
allocate == CHOOSE b \in Unallocated : \A c \in Unallocated : b <= c

\* get_control(storage).ref_count++
IncRef(h, s) ==
    IF s = Null THEN h ELSE [h EXCEPT ![s].ref_count = Increment(@)]

\* get_control(storage).ref_count--
DecRef(h, s) ==
    IF s = Null THEN h ELSE [h EXCEPT ![s].ref_count = Decrement(@)]

\* owned_ptr::deleter: get_target(storage).~T()
deleter(h, s) == [h EXCEPT ![s].dtor_runs = @ + 1]

\* owned_ptr::delete_block: ~Control(); free(storage)
delete_block(h, s) == [h EXCEPT ![s].state = "freed", ![s].frees = @ + 1]

\* What dereferencing the pointer s does to the process.
Access(h, s) ==
    IF s = Null THEN "null_deref"
    ELSE IF h[s].state # "allocated" THEN "use_after_free"
    ELSE "none"

\* The first undefined access of two made in sequence
FirstFault(f, g) == IF f # "none" THEN f ELSE g

\* ---------------------------------------------------- destructor bodies
\* ~owned_ptr on a handle whose _storage is s
owned_ptr_dtor_defers_value(h, s) ==
    IF s = Null THEN h
    ELSE LET h1 == [h EXCEPT ![s].ref_count = ClearMarker(@)]
         IN  IF h1[s].ref_count = 0 THEN delete_block(deleter(h1, s), s) ELSE h1
owned_ptr_dtor_body(h, s) ==
    IF s = Null THEN h
    ELSE LET h1 == [h EXCEPT ![s].ref_count = ClearMarker(@)]
             h2 == deleter(h1, s)
         IN  IF h2[s].ref_count = 0 THEN delete_block(h2, s) ELSE h2

\* ~dep_ptr on a handle whose _storage is s
dep_ptr_dtor_ignores_marker(h, s) ==
    IF s = Null THEN h
    ELSE LET h1 == DecRef(h, s)
         IN  IF num_deps(h1[s].ref_count) = 0 THEN delete_block(h1, s) ELSE h1
dep_ptr_dtor_body(h, s) ==
    IF s = Null THEN h
    ELSE LET h1 == DecRef(h, s)
         IN  IF h1[s].ref_count = 0 THEN delete_block(h1, s) ELSE h1

\* ~dep_ptr_const on a handle whose _storage is s
dep_ptr_const_dtor_never_frees(h, s) == DecRef(h, s)
dep_ptr_const_dtor_body(h, s) ==
    IF s = Null THEN h
    ELSE LET h1 == DecRef(h, s)
         IN  IF h1[s].ref_count = 0 THEN delete_block(h1, s) ELSE h1

\* ------------------------------------------------------------- handles
NoOwner == [live |-> FALSE, storage |-> Null]
NoDep == [live |-> FALSE, storage |-> Null]

\* op: the operation; dst: the handle it was applied to (or constructed);
\* src: its argument handle (0 if none); violation: the reason of the failed
\* check_condition ("none" if every check passed).
NoOp == [op |-> "none", dst |-> 0, src |-> 0, violation |-> "none"]
Op(name, dst, src, violation) ==
    [op |-> name, dst |-> dst, src |-> src, violation |-> violation]

\* Room left in the count of the block s (the model's cap on counters)
Room(s) == IF s = Null THEN TRUE ELSE num_deps(heap[s].ref_count) < count_cap

Init ==
    /\ reset_when_moved_from \in BOOLEAN
    /\ odd_kind = "dep_ptr"
    /\ count_cap = MaxCount
    /\ owners = [o \in OwnerIds |-> NoOwner]
    /\ deps = [d \in DepIds |-> NoDep]
    /\ fields = [d \in DepIds |-> Null]
    /\ heap = [b \in Blocks |-> NoBlock]
    /\ last = NoOp
    /\ fault = "none"
    /\ halted = FALSE

\* The outcome of one operation: o2, d2, h2 are the handles and heap the code
\* produces, f2 the data members left, l2 what it reported, f the undefined
\* behaviour it ran into.
\* Undefined behaviour ends the modelled run: the operation either traps
\* before it changes anything or completes as coded (the stray access
\* landing outside every block), and nothing is said of what follows.
CommitFields(o2, d2, f2, h2, l2, f) ==
    /\ last' = l2
    /\ UNCHANGED <<reset_when_moved_from, odd_kind, count_cap>>
    /\ IF f = "none"
       THEN /\ owners' = o2 /\ deps' = d2 /\ fields' = f2 /\ heap' = h2
            /\ UNCHANGED <<fault, halted>>
       ELSE /\ fault' = f
            /\ halted' = TRUE
            /\ \E trapped \in BOOLEAN :
                 IF trapped
                 THEN UNCHANGED <<owners, deps, fields, heap>>
                 ELSE owners' = o2 /\ deps' = d2 /\ fields' = f2 /\ heap' = h2

\* The outcome of an operation that leaves the data members alone
Commit(o2, d2, h2, l2, f) == CommitFields(o2, d2, fields, h2, l2, f)

\* ------------------------------------------------------- owner handle
\* owned_ptr::get_target: the value a non-empty handle reads
get_target(h, s) == h[s].value

\* owned_ptr::swap
owned_ptr_swap_takes(os, l, r) ==
    [os EXCEPT ![l].storage = os[r].storage, ![r].storage = Null]
owned_ptr_swap(os, l, r) ==
    [os EXCEPT ![l].storage = os[r].storage, ![r].storage = os[l].storage]

\* owned_ptr(Args&&...), owned_ptr(const T&), owned_ptr(T&&)
owned_ptr_ctor(o, v) ==
    /\ ~halted
    /\ ~owners[o].live
    /\ Unallocated # {}
    /\ LET b == allocate
       IN  Commit([owners EXCEPT ![o] = [live |-> TRUE, storage |-> b]],
                  deps,
                  [heap EXCEPT ![b] = NewBlock(v)],
                  Op("owned_ptr_ctor", o, 0, "none"),
                  "none")

\* owned_ptr(owned_ptr&& other): the handles after the construction
owned_ptr_move_ctor_keeps_source(os, dst, src) ==
    [os EXCEPT ![dst] = [live |-> TRUE, storage |-> os[src].storage]]
owned_ptr_move_ctor_handles(os, dst, src) ==
    [os EXCEPT ![dst] = [live |-> TRUE, storage |-> os[src].storage],
               ![src].storage = Null]

owned_ptr_move_ctor(dst, src) ==
    /\ ~halted
    /\ owners[src].live
    /\ ~owners[dst].live
    /\ Commit(owned_ptr_move_ctor_handles(owners, dst, src), deps, heap,
              Op("owned_ptr_move_ctor", dst, src, "none"),
              "none")

\* owned_ptr& operator=(owned_ptr&& other): swap(*this, other)
owned_ptr_move_assign(dst, src) ==
    /\ ~halted
    /\ owners[dst].live
    /\ owners[src].live
    /\ Commit(owned_ptr_swap(owners, dst, src), deps, heap,
              Op("owned_ptr_move_assign", dst, src, "none"),
              "none")

\* The dependents that are data members of the value in block s
FieldsOf(fs, ds, s) == {d \in DepIds : ds[d].live /\ fs[d] = s}

\* The part of get_target(storage).~T() that destroys the data members F of
\* the value in block home, in slot order: each member is read from the
\* block home and its destructor (~dep_ptr or ~dep_ptr_const) runs.
RECURSIVE destroy_members(_, _, _, _)
destroy_members(h, ds, F, home) ==
    IF F = {} THEN [heap |-> h, fault |-> "none"]
    ELSE LET d == CHOOSE x \in F : \A y \in F : x <= y
             x == ds[d].storage
             f1 == FirstFault(Access(h, home),
                              IF x = Null THEN "none" ELSE Access(h, x))
             h1 == IF KindOf(d) = "dep_ptr" THEN dep_ptr_dtor_body(h, x)
                   ELSE dep_ptr_const_dtor_body(h, x)
             rest == destroy_members(h1, ds, F \ {d}, home)
         IN  [heap |-> rest.heap, fault |-> FirstFault(f1, rest.fault)]

\* ~owned_ptr on a non-empty handle whose value has the data members F:
\* clear the marker, run the deleter (the value's destructor, which
\* destroys the members), then read the count and free the block if it is 0
owned_ptr_dtor_members(h, ds, F, s) ==
    LET h1 == [h EXCEPT ![s].ref_count = ClearMarker(@)]
        r == destroy_members(deleter(h1, s), ds, F, s)
        h3 == IF r.heap[s].ref_count = 0 THEN delete_block(r.heap, s) ELSE r.heap
    IN  [heap |-> h3, fault |-> FirstFault(r.fault, Access(r.heap, s))]

\* ~owned_ptr()
owned_ptr_dtor(o) ==
    /\ ~halted
    /\ owners[o].live
    /\ LET s == owners[o].storage
           F == FieldsOf(fields, deps, s)
       IN  IF s = Null \/ F = {}
           THEN Commit([owners EXCEPT ![o] = NoOwner], deps,
                       owned_ptr_dtor_body(heap, s),
                       Op("owned_ptr_dtor", o, 0, "none"),
                       IF s = Null THEN "none" ELSE Access(heap, s))
           ELSE LET r == owned_ptr_dtor_members(heap, deps, F, s)
                IN  CommitFields([owners EXCEPT ![o] = NoOwner],
                                 [d \in DepIds |-> IF d \in F THEN NoDep ELSE deps[d]],
                                 [d \in DepIds |-> IF d \in F THEN Null ELSE fields[d]],
                                 r.heap,
                                 Op("owned_ptr_dtor", o, 0, "none"),
                                 FirstFault(Access(heap, s), r.fault))

\* The value stores the dependent d as one of its data members, through the
\* owner's operator-> (the handle d is from then on destroyed by ~T)
value_takes(o, d) ==
    /\ ~halted
    /\ owners[o].live /\ owners[o].storage # Null
    /\ deps[d].live /\ fields[d] = Null
    /\ fields' = [fields EXCEPT ![d] = owners[o].storage]
    /\ last' = Op("value_takes", d, o, "none")
    /\ UNCHANGED <<reset_when_moved_from, odd_kind, count_cap, owners, deps, heap,
                   fault, halted>>

\* The reason check_condition reports when an owner whose _storage is s is
\* dereferenced ("none" if the check passes).
owned_ptr_checks(s) ==
    IF s = Null THEN "owned_ptr has been moved from" ELSE "none"

\* operator T*(), operator const T*(), operator->() (both) of owned_ptr
owned_ptr_deref(o) ==
    /\ ~halted
    /\ owners[o].live
    /\ LET s == owners[o].storage
           v == owned_ptr_checks(s)
       IN  Commit(owners, deps, heap,
                  Op("owned_ptr_deref", o, 0, v),
                  IF v = "none" THEN Access(heap, s) ELSE "none")

\* owned_ptr::num_deps() (no check_condition: ref_count() reads through _storage)
owned_ptr_num_deps(o) ==
    /\ ~halted
    /\ owners[o].live
    /\ Commit(owners, deps, heap,
              Op("owned_ptr_num_deps", o, 0, "none"),
              Access(heap, owners[o].storage))

\* --------------------------------------------------- dependent handles
\* dep_ptr and dep_ptr_const are two classes with their own member
\* functions; each definition below is one member function of one class,
\* and each action applies the member function of the class of its slot.
IsMutable(d) == KindOf(d) = "dep_ptr"

\* dep_ptr::swap
dep_ptr_swap(ds, l, r) ==
    [ds EXCEPT ![l].storage = ds[r].storage, ![r].storage = ds[l].storage]

\* dep_ptr_const::swap
dep_ptr_const_swap(ds, l, r) ==
    [ds EXCEPT ![l].storage = ds[r].storage, ![r].storage = ds[l].storage]

\* The reason check_condition reports in dep_ptr(Owner&) for an owner whose
\* _storage is s ("none" if the check passes)
dep_ptr_ctor_checks_nothing(s) == "none"
dep_ptr_ctor_checks(s) ==
    IF s = Null THEN "owned_ptr has been moved from" ELSE "none"

\* The same in dep_ptr_const(const Owner&)
dep_ptr_const_ctor_checks(s) ==
    IF s = Null THEN "owned_ptr has been moved from" ELSE "none"

\* dep_ptr(Owner&) after the check: Owner::get_control(_storage).ref_count++
dep_ptr_ctor_heap(h, s) == IncRef(h, s)

\* dep_ptr_const(const Owner&) after the check
dep_ptr_const_ctor_heap(h, s) == IncRef(h, s)

\* dep_ptr(Owner&), dep_ptr_const(const Owner&), owned_ptr::make_dep (both)
dep_ptr_ctor(d, o) ==
    /\ ~halted
    /\ owners[o].live
    /\ ~deps[d].live
    /\ Room(owners[o].storage)
    /\ LET s == owners[o].storage
           v == IF IsMutable(d) THEN dep_ptr_ctor_checks(s)
                ELSE dep_ptr_const_ctor_checks(s)
       IN  IF v # "none"
           THEN Commit(owners, deps, heap, Op("dep_ptr_ctor", d, o, v), "none")
           ELSE Commit(owners,
                       [deps EXCEPT ![d] = [live |-> TRUE, storage |-> s]],
                       IF IsMutable(d) THEN dep_ptr_ctor_heap(heap, s)
                       ELSE dep_ptr_const_ctor_heap(heap, s),
                       Op("dep_ptr_ctor", d, o, "none"),
                       Access(heap, s))

\* dep_ptr(const dep_ptr&): Owner::get_control(_storage).ref_count++
dep_ptr_copy_ctor_shares_count(h, s) == h
dep_ptr_copy_ctor_heap(h, s) == IncRef(h, s)

\* dep_ptr_const(const dep_ptr_const&)
dep_ptr_const_copy_ctor_heap(h, s) == IncRef(h, s)

\* dep_ptr(const dep_ptr&), dep_ptr_const(const dep_ptr_const&)
dep_ptr_copy_ctor(d, src) ==
    /\ ~halted
    /\ deps[src].live
    /\ ~deps[d].live
    /\ KindOf(d) = KindOf(src)
    /\ Room(deps[src].storage)
    /\ LET s == deps[src].storage
       IN  Commit(owners,
                  [deps EXCEPT ![d] = [live |-> TRUE, storage |-> s]],
                  IF IsMutable(d) THEN dep_ptr_copy_ctor_heap(heap, s)
                  ELSE dep_ptr_const_copy_ctor_heap(heap, s),
                  Op("dep_ptr_copy_ctor", d, src, "none"),
                  Access(heap, s))

\* operator=(const dep_ptr&): dep_ptr tmp(other); swap(*this, tmp); ~tmp.
\* s is other's _storage, old the one *this held.
dep_ptr_copy_assign_keeps_old(h, s, old) == dep_ptr_copy_ctor_heap(h, s)
dep_ptr_copy_assign_heap(h, s, old) ==
    dep_ptr_dtor_body(dep_ptr_copy_ctor_heap(h, s), old)

\* operator=(const dep_ptr_const&)
dep_ptr_const_copy_assign_heap(h, s, old) ==
    dep_ptr_const_dtor_body(dep_ptr_const_copy_ctor_heap(h, s), old)

\* operator=(const dep_ptr&), operator=(const dep_ptr_const&)
dep_ptr_copy_assign(dst, src) ==
    /\ ~halted
    /\ deps[dst].live /\ deps[src].live
    /\ KindOf(dst) = KindOf(src)
    /\ Room(deps[src].storage)
    /\ LET s == deps[src].storage
           old == deps[dst].storage
           h1 == IF IsMutable(dst) THEN dep_ptr_copy_ctor_heap(heap, s)
                 ELSE dep_ptr_const_copy_ctor_heap(heap, s)
       IN  Commit(owners,
                  [deps EXCEPT ![dst].storage = s],
                  IF IsMutable(dst) THEN dep_ptr_copy_assign_heap(heap, s, old)
                  ELSE dep_ptr_const_copy_assign_heap(heap, s, old),
                  Op("dep_ptr_copy_assign", dst, src, "none"),
                  FirstFault(Access(heap, s),
                             IF old = Null THEN "none" ELSE Access(h1, old)))

\* dep_ptr(dep_ptr&&): handles and heap after it
dep_ptr_move_ctor_handles(ds, d, src, reset) ==
    IF reset
    THEN [ds EXCEPT ![d] = [live |-> TRUE, storage |-> ds[src].storage],
                    ![src].storage = Null]
    ELSE [ds EXCEPT ![d] = [live |-> TRUE, storage |-> ds[src].storage]]

dep_ptr_move_ctor_never_counts(h, s, reset) == h
dep_ptr_move_ctor_heap(h, s, reset) == IF reset THEN h ELSE IncRef(h, s)

\* dep_ptr_const(dep_ptr_const&&): handles and heap after it
dep_ptr_const_move_ctor_handles(ds, d, src, reset) ==
    IF reset
    THEN [ds EXCEPT ![d] = [live |-> TRUE, storage |-> ds[src].storage],
                    ![src].storage = Null]
    ELSE [ds EXCEPT ![d] = [live |-> TRUE, storage |-> ds[src].storage]]

dep_ptr_const_move_ctor_heap(h, s, reset) == IF reset THEN h ELSE IncRef(h, s)

\* dep_ptr(dep_ptr&&), dep_ptr_const(dep_ptr_const&&)
dep_ptr_move_ctor(d, src) ==
    /\ ~halted
    /\ deps[src].live
    /\ ~deps[d].live
    /\ KindOf(d) = KindOf(src)
    /\ IF reset_when_moved_from THEN TRUE ELSE Room(deps[src].storage)
    /\ LET s == deps[src].storage
       IN  Commit(owners,
                  IF IsMutable(d)
                  THEN dep_ptr_move_ctor_handles(deps, d, src, reset_when_moved_from)
                  ELSE dep_ptr_const_move_ctor_handles(deps, d, src, reset_when_moved_from),
                  IF IsMutable(d)
                  THEN dep_ptr_move_ctor_heap(heap, s, reset_when_moved_from)
                  ELSE dep_ptr_const_move_ctor_heap(heap, s, reset_when_moved_from),
                  Op("dep_ptr_move_ctor", d, src, "none"),
                  IF reset_when_moved_from THEN "none" ELSE Access(heap, s))

\* operator=(dep_ptr&&): handles and heap after it
dep_ptr_move_assign_handles(ds, dst, src, reset) ==
    IF reset THEN dep_ptr_swap(ds, dst, src)
    ELSE IF dst # src THEN [ds EXCEPT ![dst].storage = ds[src].storage]
    ELSE ds

dep_ptr_move_assign_counts_self(h, ds, dst, src, reset) ==
    IF reset THEN h ELSE IncRef(h, ds[src].storage)
dep_ptr_move_assign_heap(h, ds, dst, src, reset) ==
    IF reset THEN h
    ELSE IF dst # src THEN IncRef(h, ds[src].storage)
    ELSE h

\* operator=(dep_ptr_const&&): handles and heap after it
dep_ptr_const_move_assign_handles(ds, dst, src, reset) ==
    IF reset THEN dep_ptr_const_swap(ds, dst, src)
    ELSE IF dst # src THEN [ds EXCEPT ![dst].storage = ds[src].storage]
    ELSE ds

dep_ptr_const_move_assign_heap(h, ds, dst, src, reset) ==
    IF reset THEN h
    ELSE IF dst # src THEN IncRef(h, ds[src].storage)
    ELSE h

\* operator=(dep_ptr&&), operator=(dep_ptr_const&&)
dep_ptr_move_assign(dst, src) ==
    /\ ~halted
    /\ deps[dst].live /\ deps[src].live
    /\ KindOf(dst) = KindOf(src)
    /\ IF reset_when_moved_from \/ dst = src THEN TRUE ELSE Room(deps[src].storage)
    /\ Commit(owners,
              IF IsMutable(dst)
              THEN dep_ptr_move_assign_handles(deps, dst, src, reset_when_moved_from)
              ELSE dep_ptr_const_move_assign_handles(deps, dst, src, reset_when_moved_from),
              IF IsMutable(dst)
              THEN dep_ptr_move_assign_heap(heap, deps, dst, src, reset_when_moved_from)
              ELSE dep_ptr_const_move_assign_heap(heap, deps, dst, src, reset_when_moved_from),
              Op("dep_ptr_move_assign", dst, src, "none"),
              IF reset_when_moved_from \/ dst = src THEN "none"
              ELSE Access(heap, deps[src].storage))

\* ~dep_ptr(), ~dep_ptr_const() of a variable (a data member is destroyed by
\* the destructor of the value it belongs to)
dep_ptr_dtor(d) ==
    /\ ~halted
    /\ deps[d].live
    /\ fields[d] = Null
    /\ LET s == deps[d].storage
       IN  Commit(owners, [deps EXCEPT ![d] = NoDep],
                  IF IsMutable(d) THEN dep_ptr_dtor_body(heap, s)
                  ELSE dep_ptr_const_dtor_body(heap, s),
                  Op("dep_ptr_dtor", d, 0, "none"),
                  IF s = Null THEN "none" ELSE Access(heap, s))

\* The reason check_condition reports when a dep_ptr bound to s is
\* dereferenced ("none" if both checks pass).
dep_ptr_checks(h, s) ==
    IF s = Null THEN "dep_ptr has been moved from"
    ELSE IF ~has_owner(h[s].ref_count) THEN "owner has been deleted"
    ELSE "none"

\* The same for a dep_ptr_const
dep_ptr_const_checks(h, s) ==
    IF s = Null THEN "dep_ptr has been moved from"
    ELSE IF ~has_owner(h[s].ref_count) THEN "owner has been deleted"
    ELSE "none"

\* operator T*(), operator const T*(), operator->() (both) of dep_ptr and
\* operator const T*(), operator->() of dep_ptr_const
dep_ptr_deref(d) ==
    /\ ~halted
    /\ deps[d].live
    /\ LET s == deps[d].storage
           v == IF IsMutable(d) THEN dep_ptr_checks(heap, s)
                ELSE dep_ptr_const_checks(heap, s)
       IN  Commit(owners, deps, heap,
                  Op("dep_ptr_deref", d, 0, v),
                  IF s = Null THEN "none" ELSE Access(heap, s))

Next ==
    \/ \E o \in OwnerIds, v \in Values : owned_ptr_ctor(o, v)
    \/ \E dst \in OwnerIds, src \in OwnerIds : owned_ptr_move_ctor(dst, src)
    \/ \E dst \in OwnerIds, src \in OwnerIds : owned_ptr_move_assign(dst, src)
    \/ \E o \in OwnerIds : owned_ptr_dtor(o)
    \/ \E o \in OwnerIds : owned_ptr_deref(o)
    \/ \E o \in OwnerIds : owned_ptr_num_deps(o)
    \/ \E d \in DepIds, o \in OwnerIds : dep_ptr_ctor(d, o)
    \/ \E d \in DepIds, src \in DepIds : dep_ptr_copy_ctor(d, src)
    \/ \E dst \in DepIds, src \in DepIds : dep_ptr_copy_assign(dst, src)
    \/ \E d \in DepIds, src \in DepIds : dep_ptr_move_ctor(d, src)
    \/ \E dst \in DepIds, src \in DepIds : dep_ptr_move_assign(dst, src)
    \/ \E d \in DepIds : dep_ptr_dtor(d)
    \/ \E d \in DepIds : dep_ptr_deref(d)

Spec == Init /\ [][Next]_vars

\* The same program with the dependent variables declared either way round:
\* dep_ptr in the odd slots and dep_ptr_const in the even ones, or the
\* reverse.
InitVariants ==
    /\ reset_when_moved_from \in BOOLEAN
    /\ odd_kind \in Kinds
    /\ count_cap = MaxCount
    /\ owners = [o \in OwnerIds |-> NoOwner]
    /\ deps = [d \in DepIds |-> NoDep]
    /\ fields = [d \in DepIds |-> Null]
    /\ heap = [b \in Blocks |-> NoBlock]
    /\ last = NoOp
    /\ fault = "none"
    /\ halted = FALSE

SpecVariants == InitVariants /\ [][Next]_vars

\* Programs whose values keep dependents as data members
NextBackRef ==
    \/ \E o \in OwnerIds, v \in Values : owned_ptr_ctor(o, v)
    \/ \E o \in OwnerIds : owned_ptr_dtor(o)
    \/ \E d \in DepIds, o \in OwnerIds : dep_ptr_ctor(d, o)
    \/ \E d \in DepIds, src \in DepIds : dep_ptr_copy_ctor(d, src)
    \/ \E o \in OwnerIds, d \in DepIds : value_takes(o, d)
    \/ \E d \in DepIds : dep_ptr_dtor(d)
    \/ \E d \in DepIds : dep_ptr_deref(d)

SpecBackRef == Init /\ [][NextBackRef]_vars

\* Programs that count dependents as far as the count word goes: the
\* increments of the code are not capped (a clear-marker count is always
\* below owner_marker), only the width of the word bounds them.
InitOverflow ==
    /\ reset_when_moved_from \in BOOLEAN
    /\ odd_kind = "dep_ptr"
    /\ count_cap = owner_marker
    /\ owners = [o \in OwnerIds |-> NoOwner]
    /\ deps = [d \in DepIds |-> NoDep]
    /\ fields = [d \in DepIds |-> Null]
    /\ heap = [b \in Blocks |-> NoBlock]
    /\ last = NoOp
    /\ fault = "none"
    /\ halted = FALSE

NextOverflow ==
    \/ \E o \in OwnerIds, v \in Values : owned_ptr_ctor(o, v)
    \/ \E o \in OwnerIds : owned_ptr_dtor(o)
    \/ \E d \in DepIds, o \in OwnerIds : dep_ptr_ctor(d, o)
    \/ \E d \in DepIds, src \in DepIds : dep_ptr_copy_ctor(d, src)
    \/ \E d \in DepIds, src \in DepIds : dep_ptr_move_ctor(d, src)
    \/ \E dst \in DepIds, src \in DepIds : dep_ptr_move_assign(dst, src)
    \/ \E d \in DepIds : dep_ptr_dtor(d)

SpecOverflow == InitOverflow /\ [][NextOverflow]_vars

TypeOK ==
    /\ reset_when_moved_from \in BOOLEAN
    /\ odd_kind \in Kinds
    /\ count_cap \in {MaxCount, owner_marker}
    /\ \A o \in OwnerIds : owners[o].storage \in Blocks \cup {Null}
    /\ \A d \in DepIds : deps[d].storage \in Blocks \cup {Null}
    /\ \A d \in DepIds : fields[d] \in Blocks \cup {Null}
    /\ \A b \in Blocks : heap[b].ref_count \in 0..(WordModulus - 1)
    /\ fault \in {"none", "null_deref", "use_after_free"}
    /\ halted \in BOOLEAN

\* ------------------------------------------------------------ vocabulary
\* The owner handles that hold block b, and the dependents bound to it
Holders(os, b) == {o \in OwnerIds : os[o].live /\ os[o].storage = b}
BoundDeps(ds, b) == {d \in DepIds : ds[d].live /\ ds[d].storage = b}

\* Blocks that have been allocated (and possibly freed since)
Created(h) == {b \in Blocks : h[b].state # "unallocated"}

\* The step being taken is the operation named op
Doing(op) == last'.op = op

\* ------------------------------------------------------------------ C1
\* C1: the value's destructor has run at most once for every block; it has
\* run exactly when no owner handle holds the block any more; and the step
\* that runs it is the destructor of the owner handle holding the block,
\* never a dependent's operation and whatever the number of dependents.
C1_SingleDestruction ==
    /\ [](\A b \in Created(heap) :
            /\ heap[b].dtor_runs <= 1
            /\ (heap[b].dtor_runs = 0) <=> (Holders(owners, b) # {}))
    /\ [][\A b \in Blocks :
            heap'[b].dtor_runs # heap[b].dtor_runs =>
                /\ Doing("owned_ptr_dtor")
                /\ owners[last'.dst].live
                /\ owners[last'.dst].storage = b
                /\ heap'[b].dtor_runs = 1]_vars

\* An owner has just been destroyed with dependents outstanding: the value
\* is destroyed and the block is still allocated.
C1_Witness ==
    /\ last.op = "owned_ptr_dtor"
    /\ \E b \in Blocks :
          /\ heap[b].dtor_runs = 1
          /\ heap[b].state = "allocated"
          /\ Cardinality(BoundDeps(deps, b)) >= 2

\* ------------------------------------------------------------------ C2
\* C2: destroying the owner while dependents are bound to its block does
\* not free the block; after that, the destruction of a dependent bound to
\* the block frees it exactly when that dependent was the last one bound to
\* it, and the block is never freed twice.
C2_DeferredFree ==
    [][\A b \in Blocks :
          /\ (/\ Doing("owned_ptr_dtor")
              /\ owners[last'.dst].storage = b
              /\ BoundDeps(deps, b) # {}) => heap'[b].state = "allocated"
          /\ (/\ Doing("dep_ptr_dtor")
              /\ deps[last'.dst].storage = b
              /\ heap[b].state = "allocated"
              /\ Holders(owners, b) = {}) =>
                 /\ (heap'[b].state = "freed") <=> (BoundDeps(deps', b) = {})
                 /\ heap'[b].frees <= 1]_vars

\* ------------------------------------------------------------------ C3
\* C3: once the owner of a block and every dependent have been destroyed, in
\* whichever order, the block has been freed exactly once; no block is ever
\* freed twice.
C3_OrderIndependence ==
    \A b \in Created(heap) :
        /\ heap[b].frees <= 1
        /\ (Holders(owners, b) = {} /\ \A d \in DepIds : ~deps[d].live) =>
               (heap[b].state = "freed" /\ heap[b].frees = 1)

\* ------------------------------------------------------------------ C4
\* C4: a dereference of a bound dependent, of either variant, reports
\* "owner has been deleted" exactly when no owner handle holds its block
\* any more, and reports nothing while an owner holds the block.
C4_UseAfterRelease ==
    (last.op = "dep_ptr_deref" /\ deps[last.dst].storage # Null) =>
        LET b == deps[last.dst].storage
        IN  /\ (Holders(owners, b) = {}) <=> (last.violation = "owner has been deleted")
            /\ (Holders(owners, b) # {}) <=> (last.violation = "none")

\* A read-only dependent has been dereferenced after its owner was destroyed
\* and the violation was reported.
C4_Witness ==
    /\ last.op = "dep_ptr_deref"
    /\ KindOf(last.dst) = "dep_ptr_const"
    /\ deps[last.dst].storage # Null
    /\ heap[deps[last.dst].storage].dtor_runs = 1
    /\ last.violation = "owner has been deleted"

\* ------------------------------------------------------------------ C5
\* The step being taken moves the dependent src into a distinct dependent
\* dst, by move-construction or move-assignment.
DepMove(dst, src) ==
    /\ Doing("dep_ptr_move_ctor") \/ Doing("dep_ptr_move_assign")
    /\ last'.dst = dst /\ last'.src = src
    /\ dst # src

\* C5: under the safe discipline, after a dependent has been moved from, by
\* move-construction or by move-assignment and whatever the destination was
\* bound to, the source is empty, dereferencing it reports use-after-move,
\* and every block's dependent count is what it was before the move.
C5_SafeMove ==
    [][reset_when_moved_from =>
        \A dst \in DepIds, src \in DepIds :
            DepMove(dst, src) =>
                /\ deps'[src].storage = Null
                /\ dep_ptr_checks(heap', deps'[src].storage) = "dep_ptr has been moved from"
                /\ \A b \in Blocks :
                      num_deps(heap'[b].ref_count) = num_deps(heap[b].ref_count)]_vars

\* ------------------------------------------------------------------ C6
\* C6: under the fast discipline, moving a dependent into a distinct one (by
\* move-construction or move-assignment) raises the dependent count of the
\* source's block by exactly one and leaves the source bound to that block;
\* dereferencing the moved-from source while an owner holds the block
\* reports nothing; and destroying a dependent, the moved-from source
\* included, lowers the count of its block by exactly one.
C6_FastMove ==
    [][~reset_when_moved_from =>
        /\ \A dst \in DepIds, src \in DepIds :
              DepMove(dst, src) =>
                  LET b == deps[src].storage
                  IN  /\ b # Null
                      /\ num_deps(heap'[b].ref_count) = num_deps(heap[b].ref_count) + 1
                      /\ has_owner(heap'[b].ref_count) = has_owner(heap[b].ref_count)
                      /\ deps'[src].live /\ deps'[src].storage = b
                      /\ deps'[dst].live /\ deps'[dst].storage = b
                      /\ Holders(owners, b) # {} => dep_ptr_checks(heap', deps'[src].storage) = "none"
        /\ \A d \in DepIds :
              (Doing("dep_ptr_dtor") /\ last'.dst = d) =>
                  LET b == deps[d].storage
                  IN  /\ b # Null
                      /\ num_deps(heap'[b].ref_count) = num_deps(heap[b].ref_count) - 1
                      /\ ~deps'[d].live]_vars

\* A dependent has just been move-constructed under the fast discipline: the
\* source and the new handle are both bound to the block of a live owner,
\* which counts two dependents.
C6_Witness ==
    /\ ~reset_when_moved_from
    /\ last.op = "dep_ptr_move_ctor"
    /\ deps[last.src].live /\ deps[last.dst].live
    /\ deps[last.src].storage = deps[last.dst].storage
    /\ LET b == deps[last.src].storage
       IN  /\ Holders(owners, b) # {}
           /\ num_deps(heap[b].ref_count) = 2
           /\ Cardinality(BoundDeps(deps, b)) = 2

\* ------------------------------------------------------------------ C7
\* C7: under the fast discipline the dependent count of every allocated
\* block equals the number of dependent handles not yet destroyed that are
\* bound to it, so that move-assigning onto a bound dependent releases the
\* destination's previous binding and no count is left over once every
\* handle is destroyed.
C7_FastAccounting ==
    ~reset_when_moved_from =>
        \A b \in Blocks :
            heap[b].state = "allocated" =>
                num_deps(heap[b].ref_count) = Cardinality(BoundDeps(deps, b))

\* ------------------------------------------------------------------ C8
\* The step being taken moves the owner src into a distinct owner dst
OwnerMove(dst, src) ==
    /\ Doing("owned_ptr_move_ctor") \/ Doing("owned_ptr_move_assign")
    /\ last'.dst = dst /\ last'.src = src
    /\ dst # src

\* C8 as claimed: after an owner has been moved from, by move-construction
\* or by move-assignment, the source holds no block reference and a
\* dereference of it is reported.
C8_SourceAlwaysEmpty ==
    [][\A dst \in OwnerIds, src \in OwnerIds :
          OwnerMove(dst, src) =>
              /\ owners'[src].storage = Null
              /\ owned_ptr_checks(owners'[src].storage) = "owned_ptr has been moved from"]_vars

\* C8 as amended: after move-construction the source owner is empty; after
\* move-assignment the source holds the block reference the destination
\* held before (so it is empty exactly when the destination was empty) and
\* the destination holds the source's; and a dereference of an owner is
\* reported exactly when the owner is empty.
C8_OwnerMove ==
    /\ [][\A dst \in OwnerIds, src \in OwnerIds :
            OwnerMove(dst, src) =>
                /\ owners'[dst].live /\ owners'[src].live
                /\ owners'[dst].storage = owners[src].storage
                /\ Doing("owned_ptr_move_ctor") => owners'[src].storage = Null
                /\ Doing("owned_ptr_move_assign") =>
                       owners'[src].storage = owners[dst].storage]_vars
    /\ [](last.op = "owned_ptr_deref" =>
            ((owners[last.dst].storage = Null)
                <=> (last.violation = "owned_ptr has been moved from")))

\* An owner has just been move-assigned onto a bound owner: the source is
\* not empty, it holds another block than the destination, and its value is
\* still alive.
C8_Witness ==
    /\ last.op = "owned_ptr_move_assign"
    /\ last.dst # last.src
    /\ owners[last.src].storage # Null
    /\ owners[last.dst].storage # Null
    /\ owners[last.src].storage # owners[last.dst].storage
    /\ owned_ptr_checks(owners[last.src].storage) = "none"
    /\ heap[owners[last.src].storage].dtor_runs = 0

\* ------------------------------------------------------------------ C9
\* The step being taken is A = move(B) between owners bound to the distinct
\* blocks a (A's) and b (B's)
OwnerAssign(a, b) ==
    /\ Doing("owned_ptr_move_assign")
    /\ owners[last'.dst].storage = a
    /\ owners[last'.src].storage = b
    /\ a # Null /\ b # Null /\ a # b

\* C9 as claimed: after A = move(B), dereferencing A yields B's former value
\* and A's original block has been released by the time the assignment has
\* returned: its value destructor has run and, having no dependents, its
\* memory has been freed.
C9_AssignReleases ==
    [][\A a \in Blocks, b \in Blocks :
          OwnerAssign(a, b) =>
              /\ owned_ptr_checks(owners'[last'.dst].storage) = "none"
              /\ get_target(heap', owners'[last'.dst].storage) = get_target(heap, b)
              /\ heap'[a].dtor_runs = 1
              /\ num_deps(heap[a].ref_count) = 0 => heap'[a].state = "freed"]_vars

\* C9 as amended: after A = move(B), dereferencing A yields B's former
\* value; the assignment releases nothing: A's original block is now held by
\* B, value alive and marker set; that block is released when the owner
\* handle holding it is destroyed: the value destructor runs then and the
\* memory is freed then if and only if the block has no dependents.
C9_AssignSwaps ==
    [][/\ \A a \in Blocks, b \in Blocks :
            OwnerAssign(a, b) =>
                /\ owned_ptr_checks(owners'[last'.dst].storage) = "none"
                /\ get_target(heap', owners'[last'.dst].storage) = get_target(heap, b)
                /\ owners'[last'.src].live
                /\ owners'[last'.src].storage = a
                /\ heap' = heap
                /\ heap'[a].state = "allocated"
                /\ heap'[a].dtor_runs = 0
                /\ has_owner(heap'[a].ref_count)
       /\ \A a \in Blocks :
            (Doing("owned_ptr_dtor") /\ owners[last'.dst].storage = a) =>
                /\ heap[a].dtor_runs = 0 /\ heap'[a].dtor_runs = 1
                /\ (heap'[a].state = "freed") <=> (num_deps(heap[a].ref_count) = 0)
                /\ ~has_owner(heap'[a].ref_count)]_vars

\* A = move(B) has just been performed between owners of "Foo" and "Bar":
\* A now reads "Bar" and B holds the block of "Foo", still allocated and not
\* destroyed.
C9_Witness ==
    /\ last.op = "owned_ptr_move_assign"
    /\ last.dst # last.src
    /\ owners[last.dst].storage # Null /\ owners[last.src].storage # Null
    /\ get_target(heap, owners[last.dst].storage) = "Bar"
    /\ get_target(heap, owners[last.src].storage) = "Foo"
    /\ heap[owners[last.src].storage].dtor_runs = 0
    /\ heap[owners[last.src].storage].state = "allocated"

\* ----------------------------------------------------------------- C10
\* C10: under the safe discipline num_deps() of a non-empty owner equals the
\* number of live dependents, of either variant, bound to the owner's
\* block; it is 0 right after the owner's construction.
C10_NumDeps ==
    reset_when_moved_from =>
        /\ \A o \in OwnerIds :
              (owners[o].live /\ owners[o].storage # Null) =>
                  num_deps(heap[owners[o].storage].ref_count)
                      = Cardinality(BoundDeps(deps, owners[o].storage))
        /\ last.op = "owned_ptr_ctor" =>
              num_deps(heap[owners[last.dst].storage].ref_count) = 0

\* Under the safe discipline a dependent has been destroyed and the owner's
\* block, which has counted dependents of both variants, is back to zero
\* dependents while an empty (moved-from) dependent is still alive.
C10_Witness ==
    /\ reset_when_moved_from
    /\ last.op = "dep_ptr_dtor"
    /\ \E o \in OwnerIds :
          /\ owners[o].live /\ owners[o].storage # Null
          /\ num_deps(heap[owners[o].storage].ref_count) = 0
    /\ \E d \in DepIds : deps[d].live /\ deps[d].storage = Null

C12_DepDestruction ==
    [][\A d \in DepIds :
          (Doing("dep_ptr_dtor") /\ last'.dst = d /\ deps[d].storage # Null) =>
              LET b == deps[d].storage
              IN  /\ heap[b].state = "allocated"
                  /\ num_deps(heap'[b].ref_count) = num_deps(heap[b].ref_count) - 1
                  /\ has_owner(heap'[b].ref_count) = has_owner(heap[b].ref_count)
                  /\ (heap'[b].state = "freed") <=>
                         (~has_owner(heap'[b].ref_count)
                             /\ num_deps(heap'[b].ref_count) = 0)
                  /\ has_owner(heap[b].ref_count) => heap'[b].state = "allocated"
                  /\ \A c \in Blocks \ {b} : heap'[c] = heap[c]]_vars

\* The only dependent of a live owner has just been destroyed: the count is
\* zero, the marker is set and the block is still allocated, value alive.
C12_Witness ==
    /\ last.op = "dep_ptr_dtor"
    /\ \E b \in Blocks :
          /\ Holders(owners, b) # {}
          /\ heap[b].ref_count = owner_marker
          /\ heap[b].state = "allocated"
          /\ heap[b].dtor_runs = 0
          /\ BoundDeps(deps, b) = {}
    /\ \A d \in DepIds : ~deps[d].live

\* ----------------------------------------------------------------- C13
\* C13: creating a dependent of either variant from an empty (moved-from)
\* owner is reported through check_condition as "owned_ptr has been moved
\* from"; the check stops the construction, so no dependent comes to exist
\* and no block's count or marker changes.
C13_DepFromEmptyOwner ==
    [][\A d \in DepIds, o \in OwnerIds :
          (Doing("dep_ptr_ctor") /\ last'.dst = d /\ last'.src = o
              /\ owners[o].storage = Null) =>
                 /\ last'.violation = "owned_ptr has been moved from"
                 /\ ~deps'[d].live
                 /\ deps' = deps
                 /\ owners' = owners
                 /\ heap' = heap
                 /\ fault' = "none"]_vars

\* A read-only dependent was requested from a moved-from owner while the
\* block the owner used to hold, now held by another owner, counts a
\* dependent: the request was reported and the slot holds no dependent.
C13_Witness ==
    /\ last.op = "dep_ptr_ctor"
    /\ last.violation = "owned_ptr has been moved from"
    /\ KindOf(last.dst) = "dep_ptr_const"
    /\ owners[last.src].live /\ owners[last.src].storage = Null
    /\ ~deps[last.dst].live
    /\ \E b \in Blocks :
          /\ Holders(owners, b) # {}
          /\ num_deps(heap[b].ref_count) = 1

\* ----------------------------------------------------------------- C14
\* The step being taken is the copy-assignment d = e of dependents, where e
\* is bound to the block s and d (possibly e itself) to old (Null if empty)
CopyAssign(s, old) ==
    /\ Doing("dep_ptr_copy_assign")
    /\ deps[last'.src].storage = s
    /\ deps[last'.dst].storage = old
    /\ s # Null

DepStep(op, d, x) ==
    /\ Doing(op)
    /\ last'.dst = d /\ last'.src = x
    /\ fault' = "none"

C16_NestedRelease ==
    /\ fault # "use_after_free"
    /\ \A b \in Created(heap) :
          /\ heap[b].frees <= 1
          /\ (Holders(owners, b) = {} /\ BoundDeps(deps, b) = {}) => heap[b].frees = 1

\* ----------------------------------------------------------------- C17
\* C17: in every reachable state each live non-empty handle, owner or
\* dependent (a moved-from dependent of the fast discipline included), is
\* bound to a block that is still allocated, and no operation has accessed
\* a freed block; in particular a dependent copied from another dependent
\* after the owner was destroyed keeps the block allocated until the copy
\* is destroyed as well.
C17_NoDanglingHandle ==
    /\ \A o \in OwnerIds :
          (owners[o].live /\ owners[o].storage # Null) =>
              heap[owners[o].storage].state = "allocated"
    /\ \A d \in DepIds :
          (deps[d].live /\ deps[d].storage # Null) =>
              heap[deps[d].storage].state = "allocated"
    /\ fault # "use_after_free"

\* A dependent has just been copied from another dependent whose owner was
\* destroyed before: no owner is left, the block counts the two dependents
\* and is still allocated, its value destroyed.
C17_Witness ==
    /\ last.op = "dep_ptr_copy_ctor"
    /\ \A o \in OwnerIds : ~owners[o].live
    /\ deps[last.dst].storage # Null
    /\ LET b == deps[last.dst].storage
       IN  /\ heap[b].dtor_runs = 1
           /\ heap[b].state = "allocated"
           /\ heap[b].ref_count = 2
           /\ BoundDeps(deps, b) = {last.dst, last.src}

\* ----------------------------------------------------------------- C18
\* The step being taken applies an operation to an empty handle: it
\* dereferences an empty owner or asks it for a dependent or for num_deps,
\* or dereferences, copies or copy-assigns from an empty dependent.
OnEmptyHandle ==
    \/ /\ Doing("owned_ptr_deref") \/ Doing("owned_ptr_num_deps")
       /\ owners[last'.dst].storage = Null
    \/ /\ Doing("dep_ptr_ctor")
       /\ owners[last'.src].storage = Null
    \/ /\ Doing("dep_ptr_deref")
       /\ deps[last'.dst].storage = Null
    \/ /\ Doing("dep_ptr_copy_ctor") \/ Doing("dep_ptr_copy_assign")
       /\ deps[last'.src].storage = Null

\* C18: under the safe discipline no operation reads or writes a block
\* through an empty handle: an operation applied to an empty owner or
\* dependent is reported through check_condition, touches no count and
\* dereferences no null pointer.
C18_EmptyHandleChecked ==
    /\ [](reset_when_moved_from => fault # "null_deref")
    /\ [][(reset_when_moved_from /\ OnEmptyHandle) =>
            /\ last'.violation # "none"
            /\ heap' = heap]_vars

\* ----------------------------------------------------------------- C19
\* C19: the self-move-assignment x = move(x) of an owner, and of a
\* dependent under either discipline, bound or empty, changes nothing: x
\* keeps its binding, every count and marker is what it was, no value is
\* destroyed, nothing is freed and nothing is reported.
C19_SelfMoveAssign ==
    [][((Doing("owned_ptr_move_assign") \/ Doing("dep_ptr_move_assign"))
            /\ last'.dst = last'.src) =>
          /\ owners' = owners
          /\ deps' = deps
          /\ heap' = heap
          /\ last'.violation = "none"
          /\ fault' = "none"]_vars

\* Under the fast discipline a dependent has just been move-assigned to
\* itself while it is the only handle on a block whose owner is gone: the
\* block is allocated and counts the one dependent.
C19_Witness ==
    /\ ~reset_when_moved_from
    /\ last.op = "dep_ptr_move_assign"
    /\ last.dst = last.src
    /\ deps[last.dst].storage # Null
    /\ LET b == deps[last.dst].storage
       IN  /\ Holders(owners, b) = {}
           /\ BoundDeps(deps, b) = {last.dst}
           /\ heap[b].state = "allocated"
           /\ heap[b].ref_count = 1

\* ----------------------------------------------------------------- C20
\* C20: move-constructing an owner changes nothing in any block (count,
\* marker and value are what they were and no value destructor runs) and
\* leaves the source empty; every dependent bound to a block stays
\* dereferenceable without violation for as long as an owner, the new one
\* included, holds the block; and destroying an empty owner, such as the
\* source afterwards, has no effect on any block or dependent.
C20_OwnerMoveCtorFrame ==
    /\ [][/\ Doing("owned_ptr_move_ctor") =>
                /\ heap' = heap
                /\ deps' = deps
                /\ owners'[last'.dst].live
                /\ owners'[last'.dst].storage = owners[last'.src].storage
                /\ owners'[last'.src].live
                /\ owners'[last'.src].storage = Null
          /\ (Doing("owned_ptr_dtor") /\ owners[last'.dst].storage = Null) =>
                /\ heap' = heap
                /\ deps' = deps
                /\ fault' = "none"]_vars
    /\ [](\A d \in DepIds :
            (deps[d].live /\ deps[d].storage # Null
                /\ Holders(owners, deps[d].storage) # {}) =>
                   /\ dep_ptr_checks(heap, deps[d].storage) = "none"
                   /\ dep_ptr_const_checks(heap, deps[d].storage) = "none"
                   /\ heap[deps[d].storage].dtor_runs = 0)

\* The source of an owner move-construction has just been destroyed: the
\* block, now held by the other owner, still counts its two dependents,
\* marker set, value alive.
C20_Witness ==
    /\ last.op = "owned_ptr_dtor"
    /\ \E o \in OwnerIds :
          /\ owners[o].live /\ owners[o].storage # Null
          /\ heap[owners[o].storage].ref_count = owner_marker + 2
          /\ heap[owners[o].storage].dtor_runs = 0
          /\ Cardinality(BoundDeps(deps, owners[o].storage)) = 2
    /\ \A b \in Blocks : heap[b].dtor_runs = 0
    /\ Cardinality(Created(heap)) = 1

\* ----------------------------------------------------------------- C21
\* The step being taken increments the count of block b: a dependent is
\* created from an owner, copied, or (fast discipline) moved
Incrementing(b) ==
    \/ /\ Doing("dep_ptr_ctor")
       /\ last'.violation = "none"
       /\ owners[last'.src].storage = b
    \/ /\ Doing("dep_ptr_copy_ctor")
       /\ deps[last'.src].storage = b
    \/ /\ Doing("dep_ptr_move_ctor") \/ Doing("dep_ptr_move_assign")
       /\ ~reset_when_moved_from
       /\ last'.dst # last'.src
       /\ deps[last'.src].storage = b

\* C21: a dependent-count increment never changes the owner marker: no
\* sequence of dependent creations, copies and fast-discipline moves
\* carries the count into the top bit of the count word, so each increment
\* raises num_deps by exactly one and leaves has_owner as it was; has_owner
\* is false once the owner is destroyed and true while an owner holds the
\* block.
C21_NoCarryIntoMarker ==
    /\ [][\A b \in Blocks :
            Incrementing(b) =>
                /\ has_owner(heap'[b].ref_count) = has_owner(heap[b].ref_count)
                /\ num_deps(heap'[b].ref_count) = num_deps(heap[b].ref_count) + 1]_vars
    /\ [](\A b \in Created(heap) :
            (Holders(owners, b) # {}) <=> has_owner(heap[b].ref_count))

====
